---- MODULE Spec2Model ----
(***************************************************************************)
(* Model of the NVC lookup-table automation.                               *)
(*   bilingual variant : src/app.ts                                        *)
(*   simple variant    : src/unnamed/part_001                              *)
(*                                                                         *)
(* JSON values are modelled structurally.  An optional or possibly         *)
(* malformed member is a record [kind, items] with kind "absent", "array"  *)
(* or "notarray".  A JavaScript object used as a dictionary is a sequence  *)
(* of <<key, value>> pairs in insertion order (the keys here are never     *)
(* array-index-like, so Object.keys yields insertion order).  A URL is a   *)
(* sequence of characters so that trim() and toLowerCase() are computed.   *)
(* A function that can throw returns [threw, val].                         *)
(***************************************************************************)
EXTENDS Integers, Sequences, FiniteSets, TLC

VARIABLES
  variant,      \* which program runs: "simple", "bilingual" or "none" (pure calls)
  pc,           \* position of main
  data,         \* response.data of the current run
  diskDisease,  \* vaccine-table/disease.json
  diskMah,      \* vaccine-table/mah.json
  diskBundle,   \* vaccine-table/nvc-bundle.json
  diskVersion,  \* nvc-version.json
  diseaseResource, \* main's local: the Disease resource found, if any
  mahResource,  \* main's local: the MarketAuthorizationHolder resource found
  diseaseLookup,\* main's local
  mahLookup,    \* main's local
  currentVersionId, \* main's local (simple variant)
  result,       \* main's local: { version, table }
  log,          \* what the run printed last: "none", "updated", "nochange", "error"
  wrote,        \* files written by the current run, in order
  failed,       \* a non-tolerated step of the current run has thrown
  tracked,      \* history: one earlier bilingual run that wrote nvc-bundle.json:
                \* its Bundle, the MAH lookup it read and the table it wrote
  call,         \* pure-function specifications: the call made
  ret           \* pure-function specifications: what it returned

vars == <<variant, pc, data, diskDisease, diskMah, diskBundle, diskVersion,
          diseaseResource, mahResource, diseaseLookup, mahLookup,
          currentVersionId, result, log, wrote, failed, tracked, call, ret>>

runVars == <<variant, pc, data, diseaseResource, mahResource, diseaseLookup,
             mahLookup, currentVersionId, result, log, wrote, failed, tracked>>

diskVars == <<diskDisease, diskMah, diskBundle, diskVersion>>

-----------------------------------------------------------------------------
(* Bounds                                                                  *)

MaxExt == 2      \* extensions in a Concept's root extension sequence
MaxDesig == 2    \* designations of a Concept
MaxEntries == 2  \* entries of a Bundle in the parse specification

-----------------------------------------------------------------------------
(* Generic helpers                                                         *)

Range(s) == {s[i] : i \in 1..Len(s)}

Absent == [kind |-> "absent", items |-> <<>>]
NotArray == [kind |-> "notarray", items |-> <<>>]
Arr(s) == [kind |-> "array", items |-> s]

\* obj[k] = v on a dictionary object: an existing key keeps its position
ObjSet(obj, k, v) ==
  IF \E i \in 1..Len(obj) : obj[i][1] = k
    THEN [i \in 1..Len(obj) |-> IF obj[i][1] = k THEN <<k, v>> ELSE obj[i]]
    ELSE Append(obj, <<k, v>>)

ObjKeys(obj) == [i \in 1..Len(obj) |-> obj[i][1]]

ObjHas(obj, k) == \E i \in 1..Len(obj) : obj[i][1] = k

ObjGet(obj, k) == obj[CHOOSE i \in 1..Len(obj) : obj[i][1] = k][2]

\* the dictionary as a mapping, forgetting insertion order
ObjPairs(obj) == Range(obj)

-----------------------------------------------------------------------------
(* Strings that are trimmed and lower-cased: sequences of characters       *)

ToLowerChar(c) ==
  CASE c = "S" -> "s"
    [] c = "D" -> "d"
    [] c = "M" -> "m"
    [] OTHER -> c

toLowerCase(s) == [i \in 1..Len(s) |-> ToLowerChar(s[i])]

RECURSIVE TrimStart(_)
TrimStart(s) ==
  IF s # <<>> /\ Head(s) = " " THEN TrimStart(Tail(s)) ELSE s

RECURSIVE TrimEnd(_)
TrimEnd(s) ==
  IF s # <<>> /\ s[Len(s)] = " " THEN TrimEnd(SubSeq(s, 1, Len(s) - 1)) ELSE s

trim(s) == TrimEnd(TrimStart(s))

\* `${API_URL}/v1/StructureDefinition/nvc-protects-against-disease`
DiseaseUrl == <<"S", "d">>
\* `${API_URL}/v1/StructureDefinition/nvc-linked-to-market-authorization-holder`
MAHUrl == <<"S", "m">>

NamingSystem == "https://nvc-cnv.canada.ca/v1/NamingSystem/nvc-display-terms-designation"

-----------------------------------------------------------------------------
(* isValueSet, isValueSetDisease, isValueSetMAH                            *)

\* mutant: one of the three recognized ids is missing from the list
isValueSetTwo(id) == id \in {"Generic", "Tradename"}

isValueSet(id) == id \in {"Generic", "Tradename", "AntigenIgAntitoxin"}

isValueSetDisease(id) == id \in {"Disease"}

isValueSetMAH(id) == id \in {"MarketAuthorizationHolder"}

-----------------------------------------------------------------------------
(* getExtensionValueByUrl                                                  *)

UrlMatches(url, targetUrl) ==
  /\ url # <<>>
  /\ toLowerCase(trim(url)) = toLowerCase(trim(targetUrl))

\* mutant: a matching extension's children are not searched
RECURSIVE findExtensionsNoDescend(_, _)
findExtensionsNoDescend(extensions, targetUrl) ==
  IF extensions = <<>> THEN <<>>
  ELSE LET extension == Head(extensions)
       IN  (IF UrlMatches(extension.url, targetUrl)
              THEN <<extension>>
              ELSE IF extension.extension.kind = "array"
                     THEN findExtensionsNoDescend(extension.extension.items, targetUrl)
                     ELSE <<>>)
           \o findExtensionsNoDescend(Tail(extensions), targetUrl)

\* findExtensions: the matching extensions in depth-first pre-order
RECURSIVE findExtensions(_, _)
findExtensions(extensions, targetUrl) ==
  IF extensions = <<>> THEN <<>>
  ELSE LET extension == Head(extensions)
       IN  (IF UrlMatches(extension.url, targetUrl) THEN <<extension>> ELSE <<>>)
           \o (IF extension.extension.kind = "array"
                 THEN findExtensions(extension.extension.items, targetUrl)
                 ELSE <<>>)
           \o findExtensions(Tail(extensions), targetUrl)

\* coding.forEach(c => valObject[c.code] = c.display)
RECURSIVE MergeCoding(_, _)
MergeCoding(valObject, coding) ==
  IF coding = <<>> THEN valObject
  ELSE MergeCoding(ObjSet(valObject, Head(coding).code, Head(coding).display),
                   Tail(coding))

\* extensions.forEach(ext => ...)
RECURSIVE MergeExtensions(_, _)
MergeExtensions(valObject, extensions) ==
  IF extensions = <<>> THEN valObject
  ELSE LET coding == Head(extensions).coding
       IN  MergeExtensions(
             IF coding.kind = "array" THEN MergeCoding(valObject, coding.items)
                                      ELSE valObject,
             Tail(extensions))

\* concept.extension that is not an array has no forEach: TypeError
ExtensionRootThrows(concept) == concept.extension.kind # "array"

getExtensionValueByUrl(concept, targetUrl) ==
  IF ExtensionRootThrows(concept)
    THEN [threw |-> TRUE, val |-> <<>>]
    ELSE LET valObject ==
               MergeExtensions(<<>>, findExtensions(concept.extension.items, targetUrl))
         IN  [threw |-> FALSE,
              val |-> IF Len(valObject) > 0 THEN <<valObject>> ELSE <<>>]

-----------------------------------------------------------------------------
(* getDisplayName                                                          *)

DesignationMatches(d, lang, code) ==
  /\ d.language = lang
  /\ d.use.kind = "present"
  /\ d.use.code = code
  /\ d.use.system = NamingSystem

\* mutant: the last matching Designation instead of the first
getDisplayNameLast(concept, lang, code) ==
  IF concept.designation.kind # "array"
    THEN [defined |-> FALSE, value |-> ""]
    ELSE LET ds == concept.designation.items
             hits == {i \in 1..Len(ds) : DesignationMatches(ds[i], lang, code)}
         IN  IF hits = {} THEN [defined |-> FALSE, value |-> ""]
             ELSE LET last == CHOOSE i \in hits : \A j \in hits : i >= j
                  IN  [defined |-> TRUE, value |-> ds[last].value]

\* concept.designation?.find(...)?.value : [defined, value]
getDisplayName(concept, lang, code) ==
  IF concept.designation.kind # "array"
    THEN [defined |-> FALSE, value |-> ""]
    ELSE LET ds == concept.designation.items
             hits == {i \in 1..Len(ds) : DesignationMatches(ds[i], lang, code)}
         IN  IF hits = {} THEN [defined |-> FALSE, value |-> ""]
             ELSE LET first == CHOOSE i \in hits : \A j \in hits : i <= j
                  IN  [defined |-> TRUE, value |-> ds[first].value]

\* x || y on strings: the empty string and undefined are falsy
OrElse(x, y) == IF x.defined /\ x.value # "" THEN x.value ELSE y

\* getDisplayName(concept, lang, lang + 'DisplayTerm') || concept.display
DisplayFor(concept, lang) ==
  OrElse(getDisplayName(concept, lang,
                        IF lang = "en" THEN "enDisplayTerm" ELSE "frDisplayTerm"),
         concept.display)

-----------------------------------------------------------------------------
(* Lookups: code -> { en, fr }, built from a persisted compose structure   *)

\* mahLookup[code]?.en : [defined, value]
LookupName(lookup, code, lang) ==
  IF ObjHas(lookup, code)
    THEN [defined |-> TRUE,
          value |-> IF lang = "en" THEN ObjGet(lookup, code).en
                                   ELSE ObjGet(lookup, code).fr]
    ELSE [defined |-> FALSE, value |-> ""]

\* include.concept.forEach(concept => lookup[concept.code] = { en, fr })
RECURSIVE LookupConcepts(_, _)
LookupConcepts(lookup, concepts) ==
  IF concepts = <<>> THEN lookup
  ELSE LET concept == Head(concepts)
       IN  LookupConcepts(
             ObjSet(lookup, concept.code,
                    [en |-> DisplayFor(concept, "en"), fr |-> DisplayFor(concept, "fr")]),
             Tail(concepts))

\* xData.include.forEach(include => include.concept.forEach(...)); no guard:
\* an include member or a concept member that is not an array throws
RECURSIVE LookupIncludes(_, _)
LookupIncludes(lookup, includes) ==
  IF includes = <<>> THEN [threw |-> FALSE, val |-> lookup]
  ELSE IF Head(includes).concept.kind # "array"
         THEN [threw |-> TRUE, val |-> lookup]
         ELSE LookupIncludes(LookupConcepts(lookup, Head(includes).concept.items),
                             Tail(includes))

BuildLookup(compose) ==
  IF compose.kind # "array"
    THEN [threw |-> TRUE, val |-> <<>>]
    ELSE LookupIncludes(<<>>, compose.items)

-----------------------------------------------------------------------------
(* parseNVCBundle                                                          *)

\* the Concepts the three nested forEach loops visit, in order
RECURSIVE IncludeConcepts(_)
IncludeConcepts(includes) ==
  IF includes = <<>> THEN <<>>
  ELSE (IF Head(includes).concept.kind = "array"
          THEN Head(includes).concept.items ELSE <<>>)
       \o IncludeConcepts(Tail(includes))

RECURSIVE VisitedConcepts(_)
VisitedConcepts(entries) ==
  IF entries = <<>> THEN <<>>
  ELSE (IF isValueSet(Head(entries).id) /\ Head(entries).include.kind = "array"
          THEN IncludeConcepts(Head(entries).include.items) ELSE <<>>)
       \o VisitedConcepts(Tail(entries))

\* codes.map(code => ({ [code]: lookup[code]?.<lang> || code }))
DiseaseNames(disease, lookup, lang) ==
  IF Len(disease) > 0
    THEN LET codes == ObjKeys(disease[1])
         IN  [i \in 1..Len(codes) |->
                <<codes[i],
                  OrElse(LookupName(lookup, codes[i], lang),
                         codes[i])>>]
    ELSE <<>>

\* mutant: no fallback to the raw display of the extension
MAHNameLookupOnly(MAH, lookup, lang) ==
  IF Len(MAH) > 0
    THEN LET codes == ObjKeys(MAH[1])
         IN  IF Len(codes) > 0
               THEN OrElse(LookupName(lookup, codes[1], lang), "")
               ELSE ""
    ELSE ""

\* mahLookup[codes[0]]?.<lang> || MAH[0][codes[0]]
MAHName(MAH, lookup, lang) ==
  IF Len(MAH) > 0
    THEN LET codes == ObjKeys(MAH[1])
         IN  IF Len(codes) > 0
               THEN OrElse(LookupName(lookup, codes[1], lang),
                           ObjGet(MAH[1], codes[1]))
               ELSE ""
    ELSE ""

\* if (MAHEN && MAHFR)
AttachMAH(MAHEN, MAHFR) == MAHEN # "" /\ MAHFR # ""

\* the record of one Concept, bilingual variant (the extensions did not throw)
BilingualRecord(concept, dLookup, mLookup) ==
  LET disease == getExtensionValueByUrl(concept, DiseaseUrl).val
      MAH == getExtensionValueByUrl(concept, MAHUrl).val
      MAHEN == MAHName(MAH, mLookup, "en")
      MAHFR == MAHName(MAH, mLookup, "fr")
      base == [displayEN |-> DisplayFor(concept, "en"),
               displayFR |-> DisplayFor(concept, "fr"),
               diseaseEN |-> DiseaseNames(disease, dLookup, "en"),
               diseaseFR |-> DiseaseNames(disease, dLookup, "fr")]
  IN  IF AttachMAH(MAHEN, MAHFR)
        THEN [displayEN |-> base.displayEN, displayFR |-> base.displayFR,
              diseaseEN |-> base.diseaseEN, diseaseFR |-> base.diseaseFR,
              MAHEN |-> MAHEN, MAHFR |-> MAHFR]
        ELSE base

\* mutant: the field is attached unconditionally
AttachAlways(x) == TRUE

\* if (Object.keys(x).length > 0) on the array x returned by the resolver
AttachSimple(x) == Len(x) > 0

\* the record of one Concept, simple variant
SimpleRecord(concept) ==
  LET disease == getExtensionValueByUrl(concept, DiseaseUrl).val
      MAH == getExtensionValueByUrl(concept, MAHUrl).val
  IN  CASE AttachSimple(disease) /\ AttachSimple(MAH) ->
             [displayName |-> concept.display, disease |-> disease, MAH |-> MAH]
        [] AttachSimple(disease) /\ ~AttachSimple(MAH) ->
             [displayName |-> concept.display, disease |-> disease]
        [] ~AttachSimple(disease) /\ AttachSimple(MAH) ->
             [displayName |-> concept.display, MAH |-> MAH]
        [] OTHER ->
             [displayName |-> concept.display]

ConceptThrows(concept) ==
  \/ getExtensionValueByUrl(concept, DiseaseUrl).threw
  \/ getExtensionValueByUrl(concept, MAHUrl).threw

\* mutant: Object.assign(table[code] || {}, rec): fields of an earlier record survive
TableMerge(table, code, rec) ==
  IF ObjHas(table, code)
    THEN LET old == ObjGet(table, code)
         IN  ObjSet(table, code,
                    [f \in DOMAIN old \cup DOMAIN rec |->
                       IF f \in DOMAIN rec THEN rec[f] ELSE old[f]])
    ELSE ObjSet(table, code, rec)

\* table[concept.code] = { ... }: a fresh record replaces any earlier one
TableSet(table, code, rec) == ObjSet(table, code, rec)

RECURSIVE BilingualFill(_, _, _, _)
BilingualFill(table, concepts, dLookup, mLookup) ==
  IF concepts = <<>> THEN [threw |-> FALSE, val |-> table]
  ELSE IF ConceptThrows(Head(concepts))
         THEN [threw |-> TRUE, val |-> table]
         ELSE BilingualFill(
                TableSet(table, Head(concepts).code,
                         BilingualRecord(Head(concepts), dLookup, mLookup)),
                Tail(concepts), dLookup, mLookup)

\* src/app.ts parseNVCBundle
parseNVCBundle(d, dLookup, mLookup) ==
  BilingualFill(<<>>, VisitedConcepts(d.entry), dLookup, mLookup)

RECURSIVE SimpleFill(_, _)
SimpleFill(table, concepts) ==
  IF concepts = <<>> THEN [threw |-> FALSE, val |-> table]
  ELSE IF ConceptThrows(Head(concepts))
         THEN [threw |-> TRUE, val |-> table]
         ELSE SimpleFill(
                TableSet(table, Head(concepts).code, SimpleRecord(Head(concepts))),
                Tail(concepts))

\* src/unnamed/part_001 parseNVCBundle
parseNVCBundleSimple(d) == SimpleFill(<<>>, VisitedConcepts(d.entry))

-----------------------------------------------------------------------------
(* Input domains                                                           *)

Coding1 == [code |-> "c1", display |-> "A"]
Coding1b == [code |-> "c1", display |-> "B"]
Coding2 == [code |-> "c2", display |-> "A"]

\* valueCodeableConcept?.coding of an extension
Codings == {Absent, Arr(<<Coding1>>), Arr(<<Coding2>>), Arr(<<Coding1b, Coding1>>)}

UrlExact == DiseaseUrl
UrlPadded == <<" ", "s", "D", " ">>
UrlOther == MAHUrl
UrlNone == <<>>

Ext(url, children, coding) == [url |-> url, extension |-> children, coding |-> coding]

LeafB == Ext(UrlPadded, Absent, Arr(<<Coding1b>>))
Leaf2 == Ext(UrlExact, NotArray, Arr(<<Coding2>>))
LeafNone == Ext(UrlNone, Absent, Arr(<<Coding1>>))

\* the child extension member of a root extension
ChildSeqs == {Absent, Arr(<<LeafB, Leaf2>>), Arr(<<LeafNone, LeafB>>)}

RootExtensions ==
  {Ext(u, k, c) : u \in {UrlExact, UrlPadded, UrlOther}, k \in ChildSeqs, c \in Codings}

Concept(code, display, designation, extension) ==
  [code |-> code, display |-> display, designation |-> designation,
   extension |-> extension]

\* concept.extension
ExtensionMembers(k) == {Absent, NotArray} \cup {Arr(x) : x \in [1..k -> RootExtensions]}

Use(system, code) == [kind |-> "present", system |-> system, code |-> code]
NoUse == [kind |-> "absent", system |-> "", code |-> ""]

Designations ==
  [language : {"en", "fr"},
   use : {NoUse, Use(NamingSystem, "enDisplayTerm"), Use(NamingSystem, "frDisplayTerm"),
          Use("urn:other", "enDisplayTerm")},
   value : {"", "X", "Y"}]

\* concept.designation
DesignationMembers(k) == {Absent} \cup {Arr(x) : x \in [1..k -> Designations]}

-----------------------------------------------------------------------------
(* Specification of the two helpers as pure calls                          *)

NoData == [versionId |-> "", entry |-> <<>>]
NoResource == [present |-> FALSE, compose |-> Absent]
NullVersion == [kind |-> "null", val |-> ""]
NoResult == [version |-> "", table |-> <<>>]
Missing == [kind |-> "missing"]
Garbage == [kind |-> "garbage"]
NoTrack == [set |-> FALSE, entry |-> <<>>, mahLookup |-> <<>>, table |-> <<>>]
NoRet == [threw |-> FALSE, val |-> <<>>]

RunIdle ==
  /\ pc = "idle"
  /\ data = NoData
  /\ diseaseResource = NoResource
  /\ mahResource = NoResource
  /\ diseaseLookup = <<>>
  /\ mahLookup = <<>>
  /\ currentVersionId = NullVersion
  /\ result = NoResult
  /\ log = "none"
  /\ wrote = <<>>
  /\ failed = FALSE
  /\ tracked = NoTrack

PureInit ==
  /\ variant = "none"
  /\ RunIdle
  /\ diskDisease = Missing
  /\ diskMah = Missing
  /\ diskBundle = Missing
  /\ diskVersion = Missing
  /\ ret = NoRet

InitHelpers ==
  /\ PureInit
  /\ \/ \E k \in 0..MaxExt : \E x \in ExtensionMembers(k) :
          call = [op |-> "ready", fn |-> "getExtensionValueByUrl",
                  concept |-> Concept("V1", "A", Absent, x)]
     \/ \E k \in 0..MaxDesig : \E d \in DesignationMembers(k) :
          call = [op |-> "ready", fn |-> "getDisplayName",
                  concept |-> Concept("V1", "A", d, Arr(<<>>))]

CallGetExtensionValueByUrl ==
  /\ call.op = "ready"
  /\ call.fn = "getExtensionValueByUrl"
  /\ ret' = getExtensionValueByUrl(call.concept, DiseaseUrl)
  /\ call' = [call EXCEPT !.op = "returned"]
  /\ UNCHANGED <<runVars, diskVars>>

\* lines 155-156 of parseNVCBundle: both display names of one Concept
CallGetDisplayName ==
  /\ call.op = "ready"
  /\ call.fn = "getDisplayName"
  /\ ret' = [en |-> DisplayFor(call.concept, "en"), fr |-> DisplayFor(call.concept, "fr")]
  /\ call' = [call EXCEPT !.op = "returned"]
  /\ UNCHANGED <<runVars, diskVars>>

NextHelpers == CallGetExtensionValueByUrl \/ CallGetDisplayName

SpecHelpers == InitHelpers /\ [][NextHelpers]_vars

-----------------------------------------------------------------------------
(* Claims about the helpers (SpecHelpers)                                  *)

DisplayReturned == call.op = "returned" /\ call.fn = "getDisplayName"
ResolverReturned == call.op = "returned" /\ call.fn = "getExtensionValueByUrl"

LangCode(lang) == IF lang = "en" THEN "enDisplayTerm" ELSE "frDisplayTerm"

\* the Designations of c that carry language lang, use.code <lang>DisplayTerm and
\* the naming-system use.system, by position
C5_Matching(c, lang) ==
  IF c.designation.kind # "array" THEN {}
  ELSE {i \in 1..Len(c.designation.items) :
          LET d == c.designation.items[i]
          IN  d.language = lang /\ d.use.kind = "present"
              /\ d.use.system = NamingSystem /\ d.use.code = LangCode(lang)}

C5_First(c, lang) ==
  c.designation.items[CHOOSE i \in C5_Matching(c, lang) :
                        \A j \in C5_Matching(c, lang) : i <= j]

C5_Written(lang) == IF lang = "en" THEN ret.en ELSE ret.fr

\* C5 as stated: the display written for a language is the raw display exactly
\* when no Designation matches, and otherwise the value of the first match.
C5_Original ==
  DisplayReturned =>
    \A lang \in {"en", "fr"} :
      /\ (C5_Written(lang) = call.concept.display) <=> (C5_Matching(call.concept, lang) = {})
      /\ C5_Matching(call.concept, lang) # {} =>
           C5_Written(lang) = C5_First(call.concept, lang).value

\* C5 amended: the display written for a language is the value of the first
\* matching Designation when there is one and its value is not empty; in every
\* other case (no match, or a first match with an empty value) it is the raw
\* display string.  Later matches are never consulted.
C5_DisplaySelection ==
  DisplayReturned =>
    \A lang \in {"en", "fr"} :
      C5_Written(lang) =
        IF C5_Matching(call.concept, lang) # {}
             /\ C5_First(call.concept, lang).value # ""
          THEN C5_First(call.concept, lang).value
          ELSE call.concept.display

\* a Concept whose first English match is empty and whose second is not: the raw
\* display is written
C5_Witness ==
  /\ DisplayReturned
  /\ Cardinality(C5_Matching(call.concept, "en")) = 2
  /\ C5_First(call.concept, "en").value = ""
  /\ call.concept.designation.items[2].value = "X"
  /\ ret.en = call.concept.display

\* C6 as stated: getExtensionValueByUrl returns a result for every Concept and
\* never raises.
C6_NeverRaises == ResolverReturned => ~ret.threw

\* every extension of a tree, parents before children, siblings in sequence order
RECURSIVE C9_PreOrder(_)
C9_PreOrder(exts) ==
  IF exts = <<>> THEN <<>>
  ELSE <<Head(exts)>>
       \o (IF Head(exts).extension.kind = "array"
             THEN C9_PreOrder(Head(exts).extension.items) ELSE <<>>)
       \o C9_PreOrder(Tail(exts))

\* the urls equal to the disease target up to surrounding blanks and letter case
C9_TargetUrls == {UrlExact, UrlPadded}

C9_IsTarget(e) == e.url \in C9_TargetUrls

C9_Matched(exts) == SelectSeq(C9_PreOrder(exts), C9_IsTarget)

C9_CodingOf(e) == IF e.coding.kind = "array" THEN e.coding.items ELSE <<>>

RECURSIVE C9_Flatten(_)
C9_Flatten(matched) ==
  IF matched = <<>> THEN <<>>
  ELSE C9_CodingOf(Head(matched)) \o C9_Flatten(Tail(matched))

\* the coded values of the matched extensions in depth-first order
C9_Occurrences(exts) == C9_Flatten(C9_Matched(exts))

\* code -> display of the last occurrence of each code
C9_LastWins(occ) ==
  {<<occ[i].code, occ[i].display>> :
     i \in {k \in 1..Len(occ) : \A j \in (k + 1)..Len(occ) : occ[j].code # occ[k].code}}

C9_Codes(e) == {C9_CodingOf(e)[i].code : i \in 1..Len(C9_CodingOf(e))}

\* no code occurs in more than one matched coding
C9_NoSharedCode(exts) ==
  LET m == C9_Matched(exts)
  IN  \A i, j \in 1..Len(m) : i # j => C9_Codes(m[i]) \cap C9_Codes(m[j]) = {}

\* every reordering of sibling extensions, at the root and below it
RECURSIVE C9_Reorderings(_)
C9_Reorderings(exts) ==
  LET n == Len(exts)
      Variants(e) ==
        IF e.extension.kind = "array"
          THEN {[e EXCEPT !.extension = Arr(k)] : k \in C9_Reorderings(e.extension.items)}
          ELSE {e}
      perms == {p \in [1..n -> 1..n] : \A a, b \in 1..n : a # b => p[a] # p[b]}
  IN  UNION {{t \in [1..n -> UNION {Variants(exts[j]) : j \in 1..n}] :
                \A i \in 1..n : t[i] \in Variants(exts[p[i]])} : p \in perms}

C9_Mapping(r) == IF r.val = <<>> THEN {} ELSE ObjPairs(r.val[1])

\* C9: the resolver collects every extension whose url equals the target up to
\* blanks and case, anywhere in the tree, and merges their code -> display pairs;
\* the display kept for a code is that of its last occurrence in depth-first
\* order; reordering siblings leaves the mapping unchanged when no code is shared
\* between matched codings; the result is one mapping, or the empty sequence
\* when no pair was collected.
C9_Resolution ==
  (ResolverReturned /\ ~ret.threw) =>
    LET exts == call.concept.extension.items
        occ == C9_Occurrences(exts)
    IN  /\ C9_Mapping(ret) = C9_LastWins(occ)
        /\ (ret.val = <<>>) <=> (occ = <<>>)
        /\ ret.val # <<>> => Len(ret.val) = 1 /\ Len(ret.val[1]) > 0
        /\ ret.val # <<>> =>
             \A i, j \in 1..Len(ret.val[1]) :
               i # j => ret.val[1][i][1] # ret.val[1][j][1]
        /\ C9_NoSharedCode(exts) =>
             \A t \in C9_Reorderings(exts) :
               C9_Mapping(getExtensionValueByUrl(
                            [call.concept EXCEPT !.extension = Arr(t)], DiseaseUrl))
                 = C9_Mapping(ret)

\* a matching root with a matching child, a second matching root, and a code
\* whose display comes from its last occurrence
C9_Witness ==
  /\ ResolverReturned
  /\ ~ret.threw
  /\ Len(call.concept.extension.items) = 2
  /\ call.concept.extension.items[1] = Ext(UrlPadded, Arr(<<LeafB, Leaf2>>), Arr(<<Coding1>>))
  /\ call.concept.extension.items[2] = Ext(UrlExact, Absent, Arr(<<Coding1>>))
  /\ ret.val = << << <<"c1", "A">>, <<"c2", "A">> >> >>

\* reordering siblings without shared codes leaves the mapping unchanged
C9_PermutationWitness ==
  /\ ResolverReturned
  /\ ~ret.threw
  /\ Len(call.concept.extension.items) = 2
  /\ C9_NoSharedCode(call.concept.extension.items)
  /\ Cardinality(C9_Mapping(ret)) = 2
  /\ Cardinality(C9_Reorderings(call.concept.extension.items)) > 1

-----------------------------------------------------------------------------
(* Specification of parseNVCBundle (both variants) as pure calls           *)

CodedExt(url, code, display) ==
  Ext(url, Absent, Arr(<<[code |-> code, display |-> display]>>))

EnDesignation(value) ==
  Arr(<<[language |-> "en", use |-> Use(NamingSystem, "enDisplayTerm"), value |-> value]>>)
FrDesignation(value) ==
  Arr(<<[language |-> "fr", use |-> Use(NamingSystem, "frDisplayTerm"), value |-> value]>>)

\* a vaccine with a disease and a holder
VaccineA ==
  Concept("V1", "Vaccine A", EnDesignation("Vaccine Alpha"),
          Arr(<<CodedExt(UrlPadded, "D1", "d1"), CodedExt(MAHUrl, "M1", "Acme raw")>>))
\* the same code again, with no extension at all
VaccineB == Concept("V1", "Vaccine B", Absent, Arr(<<>>))
\* a holder whose coded display is empty, and a disease no lookup knows
VaccineC ==
  Concept("V2", "Vaccine C", Absent,
          Arr(<<CodedExt(MAHUrl, "M2", ""), CodedExt(DiseaseUrl, "D2", "d2")>>))
\* a Concept without an extension member
VaccineD == Concept("V3", "Vaccine D", Absent, Absent)

Inc(concepts) == [concept |-> Arr(concepts)]
IncNoConcept == [concept |-> Absent]

\* resource.compose.include of an entry
Composes ==
  {Absent,
   Arr(<<IncNoConcept, Inc(<<VaccineC>>)>>),
   Arr(<<Inc(<<VaccineA>>)>>),
   Arr(<<Inc(<<VaccineA, VaccineB>>)>>),
   Arr(<<Inc(<<VaccineB>>), Inc(<<VaccineA>>)>>),
   Arr(<<Inc(<<VaccineD>>)>>)}

ResourceIds ==
  {"Generic", "Tradename", "AntigenIgAntitoxin", "Disease", "MarketAuthorizationHolder"}

Entry(id, include) == [id |-> id, include |-> include]

ParseEntries == {Entry(id, inc) : id \in ResourceIds, inc \in Composes}

DiseaseLookups == {<<>>, << <<"D1", [en |-> "Measles", fr |-> "Rougeole"]>> >>}
MahLookups == {<<>>, << <<"M1", [en |-> "Acme Inc", fr |-> "Acme Inc (fr)"]>> >>}

InitParse ==
  /\ PureInit
  /\ \E k \in 0..MaxEntries : \E e \in [1..k -> ParseEntries] :
       \E dl \in DiseaseLookups : \E ml \in MahLookups :
         call = [op |-> "ready", fn |-> "parseNVCBundle",
                 data |-> [versionId |-> "v1", entry |-> e],
                 diseaseLookup |-> dl, mahLookup |-> ml]

CallParseNVCBundle ==
  /\ call.op = "ready"
  /\ call.fn = "parseNVCBundle"
  /\ ret' = parseNVCBundle(call.data, call.diseaseLookup, call.mahLookup)
  /\ call' = [call EXCEPT !.op = "bilingual"]
  /\ UNCHANGED <<runVars, diskVars>>

\* the simple variant takes the Bundle alone
CallParseNVCBundleSimple ==
  /\ call.op = "ready"
  /\ call.fn = "parseNVCBundle"
  /\ call.diseaseLookup = <<>>
  /\ call.mahLookup = <<>>
  /\ ret' = parseNVCBundleSimple(call.data)
  /\ call' = [call EXCEPT !.op = "simple"]
  /\ UNCHANGED <<runVars, diskVars>>

NextParse == CallParseNVCBundle \/ CallParseNVCBundleSimple

SpecParse == InitParse /\ [][NextParse]_vars

-----------------------------------------------------------------------------
(* Claims about parseNVCBundle (SpecParse)                                 *)

ParseReturned ==
  /\ call.fn = "parseNVCBundle"
  /\ call.op \in {"bilingual", "simple"}
  /\ ~ret.threw

RecognizedIds == {"Generic", "Tradename", "AntigenIgAntitoxin"}

\* positions <<entry, include, concept>> of the Concepts of recognized entries
RecognizedPositions(entries) ==
  UNION {UNION {{<<i, j, k>> : k \in 1..Len(entries[i].include.items[j].concept.items)} :
                  j \in {x \in 1..Len(entries[i].include.items) :
                           entries[i].include.items[x].concept.kind = "array"}} :
           i \in {x \in 1..Len(entries) :
                    entries[x].id \in RecognizedIds /\ entries[x].include.kind = "array"}}

ConceptAt(entries, pos) ==
  entries[pos[1]].include.items[pos[2]].concept.items[pos[3]]

Later(p, q) ==
  \/ p[1] > q[1]
  \/ p[1] = q[1] /\ p[2] > q[2]
  \/ p[1] = q[1] /\ p[2] = q[2] /\ p[3] > q[3]

\* the Concept with this code that comes last in entry/include/concept order
LastConcept(entries, code) ==
  LET ps == {p \in RecognizedPositions(entries) : ConceptAt(entries, p).code = code}
  IN  ConceptAt(entries, CHOOSE p \in ps : \A q \in ps : q = p \/ Later(p, q))

TableKeys(table) == {table[i][1] : i \in 1..Len(table)}

\* C3: the keys of the returned table are exactly the codes of the Concepts
\* found in Includes of entries whose id is Generic, Tradename or
\* AntigenIgAntitoxin; Concepts of any other entry contribute no key.
C3_KeySet ==
  ParseReturned =>
    /\ TableKeys(ret.val) =
         {ConceptAt(call.data.entry, p).code : p \in RecognizedPositions(call.data.entry)}
    /\ \A i, j \in 1..Len(ret.val) : i # j => ret.val[i][1] # ret.val[j][1]

\* a Bundle with a recognized entry and a Disease entry holding another code
C3_Witness ==
  /\ ParseReturned
  /\ call.op = "bilingual"
  /\ Len(call.data.entry) = 2
  /\ call.data.entry[1] = Entry("AntigenIgAntitoxin", Arr(<<Inc(<<VaccineA>>)>>))
  /\ call.data.entry[2] = Entry("Disease", Arr(<<IncNoConcept, Inc(<<VaccineC>>)>>))
  /\ TableKeys(ret.val) = {"V1"}

Resolved(concept, url) == getExtensionValueByUrl(concept, url).val # <<>>

\* C8 as stated: a record carries its display name field(s), and a disease or
\* MAH field only when that extension of its Concept resolved to an entry.
C8_Original ==
  ParseReturned =>
    \A i \in 1..Len(ret.val) :
      LET rec == ret.val[i][2]
          c == LastConcept(call.data.entry, ret.val[i][1])
      IN  IF call.op = "simple"
            THEN /\ "displayName" \in DOMAIN rec
                 /\ "disease" \in DOMAIN rec => Resolved(c, DiseaseUrl)
                 /\ "MAH" \in DOMAIN rec => Resolved(c, MAHUrl)
            ELSE /\ {"displayEN", "displayFR"} \subseteq DOMAIN rec
                 /\ {"diseaseEN", "diseaseFR"} \cap DOMAIN rec # {} => Resolved(c, DiseaseUrl)
                 /\ {"MAHEN", "MAHFR"} \cap DOMAIN rec # {} => Resolved(c, MAHUrl)

\* C8 amended: a record carries its display name field(s).  Simple variant: it
\* carries disease, and MAH, exactly when that extension resolved to an entry.
\* Bilingual variant: it carries MAHEN and MAHFR, both or neither and never
\* empty, only when the MAH extension resolved; it always carries diseaseEN and
\* diseaseFR, which are empty sequences exactly when the disease extension
\* resolved to nothing.
C8_Fields ==
  ParseReturned =>
    \A i \in 1..Len(ret.val) :
      LET rec == ret.val[i][2]
          c == LastConcept(call.data.entry, ret.val[i][1])
      IN  IF call.op = "simple"
            THEN /\ "displayName" \in DOMAIN rec
                 /\ "disease" \in DOMAIN rec <=> Resolved(c, DiseaseUrl)
                 /\ "MAH" \in DOMAIN rec <=> Resolved(c, MAHUrl)
                 /\ DOMAIN rec \subseteq {"displayName", "disease", "MAH"}
                 /\ "disease" \in DOMAIN rec => rec.disease # <<>>
                 /\ "MAH" \in DOMAIN rec => rec.MAH # <<>>
            ELSE /\ {"displayEN", "displayFR", "diseaseEN", "diseaseFR"} \subseteq DOMAIN rec
                 /\ DOMAIN rec \subseteq {"displayEN", "displayFR", "diseaseEN",
                                          "diseaseFR", "MAHEN", "MAHFR"}
                 /\ (rec.diseaseEN = <<>>) <=> ~Resolved(c, DiseaseUrl)
                 /\ (rec.diseaseFR = <<>>) <=> ~Resolved(c, DiseaseUrl)
                 /\ "MAHEN" \in DOMAIN rec <=> "MAHFR" \in DOMAIN rec
                 /\ "MAHEN" \in DOMAIN rec =>
                      Resolved(c, MAHUrl) /\ rec.MAHEN # "" /\ rec.MAHFR # ""

\* bilingual: a Concept with no extension gets empty disease sequences and no MAH
C8_Witness ==
  /\ ParseReturned
  /\ call.op = "bilingual"
  /\ call.data.entry = <<Entry("Generic", Arr(<<Inc(<<VaccineA, VaccineB>>)>>))>>
  /\ DOMAIN ret.val[1][2] = {"displayEN", "displayFR", "diseaseEN", "diseaseFR"}
  /\ ret.val[1][2].diseaseEN = <<>>

\* simple: one record with a disease and a MAH field
C8_WitnessSimple ==
  /\ ParseReturned
  /\ call.op = "simple"
  /\ call.data.entry = <<Entry("Generic", Arr(<<Inc(<<VaccineA>>)>>))>>
  /\ DOMAIN ret.val[1][2] = {"displayName", "disease", "MAH"}

\* C10: when Concepts of recognized ValueSets share a code, the record under
\* that code is exactly the record computed from the Concept that comes last in
\* entry/include/concept order: no field of an earlier record survives.
C10_Overwrite ==
  ParseReturned =>
    \A i \in 1..Len(ret.val) :
      LET c == LastConcept(call.data.entry, ret.val[i][1])
      IN  ret.val[i][2] =
            IF call.op = "simple"
              THEN SimpleRecord(c)
              ELSE BilingualRecord(c, call.diseaseLookup, call.mahLookup)

\* VaccineA (disease and holder) then VaccineB under the same code, in two
\* entries: the record is VaccineB's, without MAHEN/MAHFR
C10_Witness ==
  /\ ParseReturned
  /\ call.op = "bilingual"
  /\ Len(call.data.entry) = 2
  /\ call.data.entry[1] = Entry("Generic", Arr(<<Inc(<<VaccineA>>)>>))
  /\ call.data.entry[2] = Entry("Tradename", Arr(<<Inc(<<VaccineA, VaccineB>>)>>))
  /\ Len(ret.val) = 1
  /\ ret.val[1][2] = [displayEN |-> "Vaccine B", displayFR |-> "Vaccine B",
                      diseaseEN |-> <<>>, diseaseFR |-> <<>>]

-----------------------------------------------------------------------------
(* The runs of main: Bundles the API may return                            *)

DiseaseSet1 == Arr(<<Inc(<<Concept("D1", "Measles", FrDesignation("Rougeole"), Arr(<<>>))>>)>>)
DiseaseSet2 == Arr(<<Inc(<<Concept("D1", "Rubeola", Absent, Arr(<<>>))>>)>>)
MahSet1 == Arr(<<Inc(<<Concept("M1", "Acme Inc", FrDesignation("Acme Inc (fr)"), Arr(<<>>))>>)>>)
\* a compose whose include has no concept array
MahSetBad == Arr(<<IncNoConcept>>)

Generic(concepts) == Entry("Generic", Arr(<<Inc(concepts)>>))

\* response.data.entry
RunEntries ==
  {<<Generic(<<VaccineA>>)>>,
   <<Generic(<<VaccineA>>), Entry("Disease", DiseaseSet1)>>,
   <<Generic(<<VaccineA>>), Entry("Disease", DiseaseSet2)>>,
   <<Generic(<<VaccineA>>), Entry("Disease", DiseaseSet1),
     Entry("MarketAuthorizationHolder", MahSet1)>>,
   <<Generic(<<VaccineC>>), Entry("Disease", DiseaseSet1),
     Entry("MarketAuthorizationHolder", MahSetBad)>>,
   <<Generic(<<VaccineC, VaccineB>>), Entry("Disease", DiseaseSet1)>>,
   <<Generic(<<VaccineD>>), Entry("Disease", DiseaseSet1)>>,
   <<Generic(<<VaccineB>>), Entry("Disease", Absent)>>}

\* response.data.meta.versionId
Versions == {"v1", "v2"}

JsonFile(v) == [kind |-> "json", val |-> v]

\* mutant: the versionId member is lost on the way to the file
VersionMarkerLost(v) == [hasVersionId |-> FALSE, versionId |-> ""]

\* { versionId } as main writes it
VersionMarker(v) == [hasVersionId |-> TRUE, versionId |-> v]
\* a marker file holding {}
EmptyMarker == [hasVersionId |-> FALSE, versionId |-> ""]

-----------------------------------------------------------------------------
(* The runs of main: steps                                                 *)

\* the resource of the last entry among those at positions hits (the forEach
\* of lines 220-227 keeps the last assignment)
LastResource(entries, hits) ==
  IF hits = {} THEN NoResource
  ELSE [present |-> TRUE,
        compose |-> entries[CHOOSE i \in hits : \A j \in hits : i >= j].include]

FindDiseaseResource(entries) ==
  LastResource(entries, {i \in 1..Len(entries) : isValueSetDisease(entries[i].id)})

FindMahResource(entries) ==
  LastResource(entries, {i \in 1..Len(entries) : isValueSetMAH(entries[i].id)})

\* mutant: the failing step is logged and waited for again instead of ending the run
FailAndRetry ==
  /\ failed' = TRUE
  /\ log' = "error"
  /\ UNCHANGED <<variant, pc, data, diskVars, diseaseResource, mahResource, diseaseLookup,
                 mahLookup, currentVersionId, result, wrote, tracked, call, ret>>

\* catch (error) { console.error(...) } at the end of main: the run is over
Fail ==
  /\ failed' = TRUE
  /\ log' = "error"
  /\ pc' = "done"
  /\ UNCHANGED <<variant, data, diskVars, diseaseResource, mahResource, diseaseLookup,
                 mahLookup, currentVersionId, result, wrote, tracked, call, ret>>

\* await axios.request(config): a Bundle, or a rejection
Fetch ==
  /\ pc = "idle"
  /\ \/ /\ \E e \in RunEntries, v \in Versions : data' = [versionId |-> v, entry |-> e]
        /\ pc' = IF variant = "simple" THEN "readVersion" ELSE "writeDisease"
        /\ diseaseResource' =
             IF variant = "bilingual" THEN FindDiseaseResource(data'.entry)
                                      ELSE NoResource
        /\ mahResource' =
             IF variant = "bilingual"
               THEN FindMahResource(data'.entry)
               ELSE NoResource
        /\ UNCHANGED <<variant, diskVars, diseaseLookup, mahLookup, currentVersionId,
                       result, log, wrote, failed, tracked, call, ret>>
     \/ Fail

\* the process ends; the scheduler starts the next run
NextRun ==
  /\ pc = "done"
  /\ pc' = "idle"
  /\ data' = NoData
  /\ diseaseResource' = NoResource
  /\ mahResource' = NoResource
  /\ diseaseLookup' = <<>>
  /\ mahLookup' = <<>>
  /\ currentVersionId' = NullVersion
  /\ result' = NoResult
  /\ log' = "none"
  /\ wrote' = <<>>
  /\ failed' = FALSE
  /\ UNCHANGED <<variant, diskVars, tracked, call, ret>>

(* simple variant ---------------------------------------------------------*)

\* what the try block of lines 168-176 leaves in currentVersionId
ReadMarker(file) ==
  IF file.kind = "json"
    THEN IF file.val.hasVersionId
           THEN [kind |-> "string", val |-> file.val.versionId]
           ELSE [kind |-> "undefined", val |-> ""]
    ELSE NullVersion

\* readFile + JSON.parse of nvc-version.json; any failure is tolerated
S_ReadVersion ==
  /\ variant = "simple"
  /\ pc = "readVersion"
  /\ \/ currentVersionId' = ReadMarker(diskVersion)
     \/ currentVersionId' = NullVersion      \* the read itself fails
  /\ pc' = "compare"
  /\ UNCHANGED <<variant, data, diskVars, diseaseResource, mahResource, diseaseLookup,
                 mahLookup, result, log, wrote, failed, tracked, call, ret>>

\* mutant: a missing marker counts as unchanged
VersionChangedLoose(current, new) == current.kind = "string" /\ current.val # new

\* currentVersionId !== newVersionId
VersionChanged(current, new) == ~(current.kind = "string" /\ current.val = new)

S_Compare ==
  /\ variant = "simple"
  /\ pc = "compare"
  /\ IF VersionChanged(currentVersionId, data.versionId)
       THEN IF parseNVCBundleSimple(data).threw
              THEN Fail
              ELSE /\ result' = [version |-> data.versionId,
                                 table |-> parseNVCBundleSimple(data).val]
                   /\ pc' = "writeBundle"
                   /\ UNCHANGED <<variant, data, diskVars, diseaseResource, mahResource,
                                  diseaseLookup, mahLookup, currentVersionId, log, wrote,
                                  failed, tracked, call, ret>>
       ELSE /\ log' = "nochange"
            /\ pc' = "done"
            /\ UNCHANGED <<variant, data, diskVars, diseaseResource, mahResource,
                           diseaseLookup, mahLookup, currentVersionId, result, wrote,
                           failed, tracked, call, ret>>

S_WriteBundle ==
  /\ variant = "simple"
  /\ pc = "writeBundle"
  /\ \/ /\ diskBundle' = JsonFile(result)
        /\ wrote' = Append(wrote, "nvc-bundle.json")
        /\ pc' = "writeVersion"
        /\ UNCHANGED <<variant, data, diskDisease, diskMah, diskVersion, diseaseResource,
                       mahResource, diseaseLookup, mahLookup, currentVersionId, result,
                       log, failed, tracked, call, ret>>
     \/ Fail

S_WriteVersion ==
  /\ variant = "simple"
  /\ pc = "writeVersion"
  /\ \/ /\ diskVersion' = JsonFile(VersionMarker(data.versionId))
        /\ wrote' = Append(wrote, "nvc-version.json")
        /\ log' = "updated"
        /\ pc' = "done"
        /\ UNCHANGED <<variant, data, diskDisease, diskMah, diskBundle, diseaseResource,
                       mahResource, diseaseLookup, mahLookup, currentVersionId, result,
                       failed, tracked, call, ret>>
     \/ Fail

(* bilingual variant ------------------------------------------------------*)

B_WriteDisease ==
  /\ variant = "bilingual"
  /\ pc = "writeDisease"
  /\ \/ /\ diseaseResource.present
        /\ diskDisease' = JsonFile(diseaseResource.compose)
        /\ wrote' = Append(wrote, "disease.json")
        /\ pc' = "writeMah"
        /\ UNCHANGED <<variant, data, diskMah, diskBundle, diskVersion, diseaseResource,
                       mahResource, diseaseLookup, mahLookup, currentVersionId, result,
                       log, failed, tracked, call, ret>>
     \/ /\ diseaseResource.present
        /\ Fail
     \/ /\ ~diseaseResource.present
        /\ pc' = "writeMah"
        /\ UNCHANGED <<variant, data, diskVars, diseaseResource, mahResource,
                       diseaseLookup, mahLookup, currentVersionId, result, log, wrote,
                       failed, tracked, call, ret>>

B_WriteMah ==
  /\ variant = "bilingual"
  /\ pc = "writeMah"
  /\ \/ /\ mahResource.present
        /\ diskMah' = JsonFile(mahResource.compose)
        /\ wrote' = Append(wrote, "mah.json")
        /\ pc' = "readDisease"
        /\ UNCHANGED <<variant, data, diskDisease, diskBundle, diskVersion,
                       diseaseResource, mahResource, diseaseLookup, mahLookup,
                       currentVersionId, result, log, failed, tracked, call, ret>>
     \/ /\ mahResource.present
        /\ Fail
     \/ /\ ~mahResource.present
        /\ pc' = "readDisease"
        /\ UNCHANGED <<variant, data, diskVars, diseaseResource, mahResource,
                       diseaseLookup, mahLookup, currentVersionId, result, log, wrote,
                       failed, tracked, call, ret>>

\* JSON.parse(await fs.readFile(disease.json)) and the lookup loop, unguarded
B_ReadDisease ==
  /\ variant = "bilingual"
  /\ pc = "readDisease"
  /\ \/ /\ diskDisease.kind = "json"
        /\ ~BuildLookup(diskDisease.val).threw
        /\ diseaseLookup' = BuildLookup(diskDisease.val).val
        /\ pc' = "readMah"
        /\ UNCHANGED <<variant, data, diskVars, diseaseResource, mahResource, mahLookup,
                       currentVersionId, result, log, wrote, failed, tracked, call, ret>>
     \/ /\ diskDisease.kind = "json"
        /\ BuildLookup(diskDisease.val).threw
        /\ Fail
     \/ /\ diskDisease.kind # "json"   \* no file, or not JSON
        /\ Fail
     \/ Fail                            \* the read itself fails

\* if (mahResource) { try { ... } catch { mahLookup = {} } }
B_ReadMah ==
  /\ variant = "bilingual"
  /\ pc = "readMah"
  /\ \/ /\ mahResource.present
        /\ diskMah.kind = "json"
        /\ mahLookup' = IF BuildLookup(diskMah.val).threw
                          THEN <<>> ELSE BuildLookup(diskMah.val).val
     \/ /\ mahResource.present
        /\ mahLookup' = <<>>            \* the read fails: tolerated
     \/ /\ ~mahResource.present
        /\ mahLookup' = <<>>
  /\ pc' = "parse"
  /\ UNCHANGED <<variant, data, diskVars, diseaseResource, mahResource, diseaseLookup,
                 currentVersionId, result, log, wrote, failed, tracked, call, ret>>

B_Parse ==
  /\ variant = "bilingual"
  /\ pc = "parse"
  /\ IF parseNVCBundle(data, diseaseLookup, mahLookup).threw
       THEN Fail
       ELSE /\ result' = [version |-> data.versionId,
                          table |-> parseNVCBundle(data, diseaseLookup, mahLookup).val]
            /\ pc' = "writeBundle"
            /\ UNCHANGED <<variant, data, diskVars, diseaseResource, mahResource,
                           diseaseLookup, mahLookup, currentVersionId, log, wrote,
                           failed, tracked, call, ret>>

B_WriteBundle ==
  /\ variant = "bilingual"
  /\ pc = "writeBundle"
  /\ \/ /\ diskBundle' = JsonFile(result)
        /\ wrote' = Append(wrote, "nvc-bundle.json")
        /\ pc' = "writeVersion"
        /\ \/ UNCHANGED tracked
           \/ /\ ~tracked.set
              /\ tracked' = [set |-> TRUE, entry |-> data.entry,
                              mahLookup |-> mahLookup, table |-> result.table]
        /\ UNCHANGED <<variant, data, diskDisease, diskMah, diskVersion, diseaseResource,
                       mahResource, diseaseLookup, mahLookup, currentVersionId, result,
                       log, failed, call, ret>>
     \/ Fail

B_WriteVersion ==
  /\ variant = "bilingual"
  /\ pc = "writeVersion"
  /\ \/ /\ diskVersion' = JsonFile(VersionMarker(data.versionId))
        /\ wrote' = Append(wrote, "nvc-version.json")
        /\ log' = "updated"
        /\ pc' = "done"
        /\ UNCHANGED <<variant, data, diskDisease, diskMah, diskBundle, diseaseResource,
                       mahResource, diseaseLookup, mahLookup, currentVersionId, result,
                       failed, tracked, call, ret>>
     \/ Fail

Init ==
  /\ RunIdle
  /\ call = [op |-> "none"]
  /\ ret = NoRet
  /\ diskBundle = Missing
  /\ diskMah = Missing
  /\ \/ /\ variant = "simple"
        /\ diskDisease = Missing
        /\ diskVersion \in {Missing, Garbage, JsonFile(EmptyMarker)}
     \/ /\ variant = "bilingual"
        /\ diskDisease \in {Missing, Garbage}
        /\ diskVersion = Missing

Next ==
  \/ Fetch
  \/ NextRun
  \/ S_ReadVersion
  \/ S_Compare
  \/ S_WriteBundle
  \/ S_WriteVersion
  \/ B_WriteDisease
  \/ B_WriteMah
  \/ B_ReadDisease
  \/ B_ReadMah
  \/ B_Parse
  \/ B_WriteBundle
  \/ B_WriteVersion

Spec == Init /\ [][Next]_vars

-----------------------------------------------------------------------------
(* Claims about the runs (Spec)                                            *)

Fetched == data # NoData

BothFiles == <<"nvc-bundle.json", "nvc-version.json">>

\* the versionId held by the persisted marker, if the file holds one
C1_PersistedIs(file, v) ==
  file.kind = "json" /\ file.val.hasVersionId /\ file.val.versionId = v

\* what the run read from the marker equals the fetched versionId
C1_ReadEqual == currentVersionId.kind = "string" /\ currentVersionId.val = data.versionId

C1_Gate ==
  (variant = "simple" /\ pc = "done" /\ Fetched) =>
    IF C1_ReadEqual
      THEN wrote = <<>> /\ log = "nochange" /\ ~failed
      ELSE \/ failed /\ log = "error"
           \/ /\ wrote = BothFiles
              /\ log = "updated"
              /\ diskBundle = JsonFile([version |-> data.versionId,
                                        table |-> parseNVCBundleSimple(data).val])
              /\ diskVersion = JsonFile(VersionMarker(data.versionId))

\* the read step: a marker that is missing or unparsable is 'no previous version';
\* a versionId is read only if the file holds it
C1_Read ==
  (variant = "simple" /\ pc = "readVersion") =>
    /\ diskVersion.kind # "json" => currentVersionId'.kind = "null"
    /\ currentVersionId'.kind = "string" =>
         C1_PersistedIs(diskVersion, currentVersionId'.val)

\* C1: in a simple-variant run whose fetch succeeds, nvc-bundle.json and
\* nvc-version.json are written if and only if the versionId read from the
\* persisted marker is not exactly the fetched one (a missing, unreadable or
\* unparsable marker is no previous version), unless a later step of the run
\* fails; when the two are equal the run writes no file and reports 'No change'.
C1_VersionGate == [](C1_Gate) /\ [][C1_Read]_vars

\* a second run with the same versionId: no file written, 'No change'
C1_Witness ==
  /\ variant = "simple"
  /\ pc = "done"
  /\ log = "nochange"
  /\ wrote = <<>>
  /\ C1_PersistedIs(diskVersion, data.versionId)

\* a run that found no usable marker and wrote both files
C1_WitnessWritten ==
  /\ variant = "simple"
  /\ pc = "done"
  /\ log = "updated"
  /\ currentVersionId = NullVersion
  /\ wrote = BothFiles

NoMahEntry == \A i \in 1..Len(data.entry) : data.entry[i].id # "MarketAuthorizationHolder"

Parsed == variant = "bilingual" /\ pc \in {"writeBundle", "writeVersion"}

\* C2 as stated: when the Bundle has no MarketAuthorizationHolder entry, every
\* record of the table omits MAHEN and MAHFR, whatever MAH extensions the
\* Concepts carry.
C2_Original ==
  (Parsed /\ NoMahEntry) =>
    \A i \in 1..Len(result.table) :
      {"MAHEN", "MAHFR"} \cap DOMAIN result.table[i][2] = {}

\* the raw display of the first code the MAH extension of c resolved to
C2_RawMah(c) == getExtensionValueByUrl(c, MAHUrl).val[1][1][2]

C2_Records ==
  (Parsed /\ NoMahEntry) =>
    /\ mahLookup = <<>>
    /\ \A i \in 1..Len(wrote) : wrote[i] # "mah.json"
    /\ \A i \in 1..Len(result.table) :
         LET rec == result.table[i][2]
             c == LastConcept(data.entry, result.table[i][1])
         IN  IF Resolved(c, MAHUrl) /\ C2_RawMah(c) # ""
               THEN /\ {"MAHEN", "MAHFR"} \subseteq DOMAIN rec
                    /\ rec.MAHEN = C2_RawMah(c)
                    /\ rec.MAHFR = C2_RawMah(c)
               ELSE {"MAHEN", "MAHFR"} \cap DOMAIN rec = {}

\* the MAH lookup step of a run without MAH entry cannot fail the run
C2_NoError ==
  (variant = "bilingual" /\ pc = "readMah" /\ NoMahEntry) => (~failed' /\ pc' = "parse")

\* C2 amended: when the Bundle has no MarketAuthorizationHolder entry, mah.json
\* is neither written nor read, the MAH lookup is empty and that step raises no
\* error; a record then omits MAHEN and MAHFR exactly when the Concept's MAH
\* extension resolved to nothing or the raw display of its first code is empty;
\* otherwise MAHEN and MAHFR are both that raw display.
C2_MahAbsent == [](C2_Records) /\ [][C2_NoError]_vars

\* no MAH entry, a Concept with a MAH extension: the raw display is attached
C2_Witness ==
  /\ Parsed
  /\ NoMahEntry
  /\ data.entry = <<Generic(<<VaccineA>>), Entry("Disease", DiseaseSet1)>>
  /\ result.table[1][2].MAHEN = "Acme raw"
  /\ result.table[1][2].MAHFR = "Acme raw"

WroteBundle == \E i \in 1..Len(wrote) : wrote[i] = "nvc-bundle.json"

\* C4 as stated: two runs that fetch the same Bundle write the same table to
\* nvc-bundle.json, whatever files earlier runs left on disk (compared here
\* between runs whose tolerated mah.json read had the same outcome).
C4_Recomputed ==
  (/\ variant = "bilingual"
   /\ WroteBundle
   /\ tracked.set
   /\ tracked.entry = data.entry
   /\ tracked.mahLookup = mahLookup) =>
    diskBundle.val.table = tracked.table

C7_FailedIsOver == failed => (pc = "done" /\ log = "error")

C7_FailStep ==
  (~failed /\ failed') =>
    /\ UNCHANGED <<diskVars, wrote>>
    /\ pc' = "done"
    /\ log' = "error"

C7_AfterFail ==
  failed => /\ UNCHANGED diskVars
            /\ wrote' = wrote \/ pc' = "idle"

\* C7: in both variants, once a step of a run has failed (other than the
\* tolerated reads), no file is written or changed for the rest of that run,
\* the run is over (no step is retried), what it wrote before stays written,
\* and the error is logged by the catch of main.
C7_AbortOnError == [](C7_FailedIsOver) /\ [][C7_FailStep /\ C7_AfterFail]_vars

\* the version write failed after nvc-bundle.json was written: the table stays
C7_Witness ==
  /\ failed
  /\ pc = "done"
  /\ wrote = <<"disease.json", "mah.json", "nvc-bundle.json">>
  /\ diskBundle = JsonFile(result)
  /\ ~C1_PersistedIs(diskVersion, data.versionId)

\* the simple variant: the table write failed, nothing was written
C7_WitnessSimple ==
  /\ variant = "simple"
  /\ failed
  /\ pc = "done"
  /\ result # NoResult
  /\ wrote = <<>>
  /\ diskBundle = Missing

-----------------------------------------------------------------------------
(* Runs that start with no output file                                     *)

InitClean ==
  /\ Init
  /\ diskDisease = Missing
  /\ diskMah = Missing
  /\ diskBundle = Missing
  /\ diskVersion = Missing

SpecClean == InitClean /\ [][Next]_vars

\* a simple-variant run that ended with 'updated' or 'No change'
C11_Completed == variant = "simple" /\ pc = "done" /\ log \in {"updated", "nochange"}

C11_BundleVersionIs(v) == diskBundle.kind = "json" /\ diskBundle.val.version = v

\* C11 as stated: whenever a simple-variant run completes without error, the
\* version stored in nvc-bundle.json equals the versionId fetched by that run
\* and equals the versionId in nvc-version.json.
C11_Original ==
  C11_Completed =>
    /\ C11_BundleVersionIs(data.versionId)
    /\ C1_PersistedIs(diskVersion, data.versionId)

\* C11 amended: starting with no output files, whenever a simple-variant run
\* completes without error the versionId in nvc-version.json equals the
\* versionId fetched by that run and nvc-bundle.json exists; the version stored
\* in nvc-bundle.json equals them when the run ended with 'updated', while
\* after 'No change' it is the version of the last table write, which may
\* differ (an earlier run wrote the table and failed before writing the marker).
C11_Consistent ==
  C11_Completed =>
    /\ C1_PersistedIs(diskVersion, data.versionId)
    /\ diskBundle.kind = "json"
    /\ diskBundle.val.version \in Versions
    /\ log = "updated" =>
         /\ C11_BundleVersionIs(data.versionId)
         /\ diskBundle.val.table = parseNVCBundleSimple(data).val

\* 'No change' on a marker that matches, over a table file of another version
C11_Witness ==
  /\ C11_Completed
  /\ log = "nochange"
  /\ C1_PersistedIs(diskVersion, data.versionId)
  /\ diskBundle.kind = "json"
  /\ diskBundle.val.version # data.versionId

\* 'updated': the three versions agree
C11_WitnessUpdated ==
  /\ C11_Completed
  /\ log = "updated"
  /\ C11_BundleVersionIs(data.versionId)
  /\ C1_PersistedIs(diskVersion, data.versionId)

====
